---- MODULE Spec2Model ----
(***************************************************************************)
(* Model of marbar0407/myplace_reg: the rank engine compute_place of the   *)
(* batch script (src/compute_place.py), its copy _compute_place in the     *)
(* HTTP service (src/app.py), the cached fetcher _fetch_data and the       *)
(* request handler Handler.do_GET.                                         *)
(*                                                                         *)
(* Strings are sequences of code points (65 = "A", 97 = "a", 32 = " ").    *)
(* Scores (sumRank) are counted in units of 1e-5, so that EPS is 1 and the *)
(* initial last_non_disqual_sum_rank of -1.0 is -100000.                   *)
(* Optional[int] is None == <<>> or <<p>>.                                 *)
(***************************************************************************)
EXTENDS Integers, Sequences, FiniteSets, TLC

VARIABLES
  rows, name, form,            \* the arguments of compute_place
  pc,                          \* position in compute_place: "call", "loop", "done"
  filtered, idx,               \* the sorted cohort and the index of the next row
  non_disqual_i, last_non_disqual_sum_rank, last_place,
  ret,                         \* what compute_place returned, and where:
                               \* "match" (line 56), "end" (61), "sort" (38)
  rows2, name2,                \* a second row list and a second target name
  cache, clock,                \* the service's cache and the wall clock
  resp, call                   \* the last response and the last _fetch_data call

vars == <<rows, name, form, pc, filtered, idx, non_disqual_i,
          last_non_disqual_sum_rank, last_place, ret, rows2, name2,
          cache, clock, resp, call>>

rankVars == <<pc, filtered, idx, non_disqual_i, last_non_disqual_sum_rank,
              last_place, ret>>
serverVars == <<cache, clock, resp, call>>

-----------------------------------------------------------------------------
(* Bounds of the model.                                                    *)

MaxRows == 3
MaxRows2 == 3
MaxPad == 2
MaxClock == 6
MaxDur == 2

-----------------------------------------------------------------------------
(* Values.                                                                 *)

None == <<>>
Some(p) == <<p>>

Num(n) == [t |-> "num", v |-> n]
Null == [t |-> "null", v |-> 0]

EPS == 1
SENTINEL == -100000
SP == 32

-----------------------------------------------------------------------------
(* Python's str methods, on sequences of code points.                      *)

isspace(c) == c \in {9, 10, 11, 12, 13, 32}

lower(s) == [i \in 1..Len(s) |-> IF s[i] \in 65..90 THEN s[i] + 32 ELSE s[i]]

RECURSIVE lstrip(_)
lstrip(s) == IF s # <<>> /\ isspace(Head(s)) THEN lstrip(Tail(s)) ELSE s

RECURSIVE rstrip(_)
rstrip(s) ==
  IF s # <<>> /\ isspace(s[Len(s)]) THEN rstrip(SubSeq(s, 1, Len(s) - 1)) ELSE s

strip(s) == rstrip(lstrip(s))

\* the first position from i on that holds whitespace, or Len(t) + 1
RECURSIVE word_end(_, _)
word_end(t, i) ==
  IF i > Len(t) THEN i ELSE IF isspace(t[i]) THEN i ELSE word_end(t, i + 1)

\* str.split(): the words between runs of whitespace
RECURSIVE split(_)
split_word(t, n) == <<SubSeq(t, 1, n - 1)>> \o split(SubSeq(t, n, Len(t)))
split_words(t) == IF t = <<>> THEN <<>> ELSE split_word(t, word_end(t, 1))
split(s) == split_words(lstrip(s))

RECURSIVE join(_, _)
join(sep, words) ==
  IF words = <<>> THEN <<>>
  ELSE IF Len(words) = 1 THEN words[1]
  ELSE words[1] \o sep \o join(sep, Tail(words))

startswith(s, prefix) ==
  Len(prefix) <= Len(s) /\ SubSeq(s, 1, Len(prefix)) = prefix

RECURSIVE str_lt(_, _)
str_lt(a, b) ==
  IF b = <<>> THEN FALSE
  ELSE IF a = <<>> THEN TRUE
  ELSE IF Head(a) # Head(b) THEN Head(a) < Head(b)
  ELSE str_lt(Tail(a), Tail(b))

-----------------------------------------------------------------------------
(* Python's float(), int(bool), tuple comparison and the stable list.sort. *)

float_raises(v) == v.t # "num"
float(v) == v.v
int(b) == IF b THEN 1 ELSE 0

tuple_lt(k1, k2) ==
  IF k1[1] # k2[1] THEN k1[1] < k2[1]
  ELSE IF k1[2] # k2[2] THEN k1[2] < k2[2]
  ELSE IF k1[3] # k2[3] THEN k1[3] < k2[3]
  ELSE IF k1[4] # k2[4] THEN k1[4] < k2[4]
  ELSE str_lt(k1[5], k2[5])

\* The place of each element in the sorted order: those with a smaller key
\* come before it, and so do the earlier ones with an equal key.
sort_places(keys) ==
  [i \in 1..Len(keys) |->
     1 + Cardinality({j \in 1..Len(keys) : \/ tuple_lt(keys[j], keys[i])
                                          \/ (keys[j] = keys[i] /\ j < i)})]

place_all(s, places) ==
  [p \in 1..Len(s) |-> s[CHOOSE i \in 1..Len(s) : places[i] = p]]

\* list.sort(key=...): ascending by key; rows with equal keys keep their order.
list_sort(s, keys) == place_all(s, sort_places(keys))

-----------------------------------------------------------------------------
(* src/compute_place.py                                                    *)

\* (mutant) the key without the disqual component
sort_key_no_disqual(row) ==
  <<0 - float(row.sumRank), 0, int(row.automatic), row.form, row.name>>

\* lines 21-29
sort_key(row) ==
  <<0 - float(row.sumRank), int(row.disqual), int(row.automatic), row.form, row.name>>

norm(s) == join(<<SP>>, split(lower(strip(s))))

\* (mutant) no filter on the form
filter_form_all(rs, f) == rs

\* line 37
filter_form(rs, f) == SelectSeq(rs, LAMBDA r : r.form = f)

\* lines 37-38; the key function is called on every row of the cohort
sort_rows(c) == list_sort(c, [i \in 1..Len(c) |-> sort_key(c[i])])

sorted_cohort(rs, f) == sort_rows(filter_form(rs, f))

sort_raises(rs, f) ==
  \E i \in 1..Len(rs) : rs[i].form = f /\ float_raises(rs[i].sumRank)

\* lines 40-42
walk_init == [non_disqual_i |-> 0,
              last_non_disqual_sum_rank |-> SENTINEL,
              last_place |-> None]

abs(x) == IF x < 0 THEN 0 - x ELSE x

\* (mutant) a new score level is shown for a disqualified row too
new_rank_any_row(st, row) ==
  abs(float(row.sumRank) - st.last_non_disqual_sum_rank) > EPS

\* line 50
new_rank(st, row) ==
  abs(float(row.sumRank) - st.last_non_disqual_sum_rank) > EPS /\ ~row.disqual

\* lines 47-52
display(st, row) ==
  IF new_rank(st, row)
  THEN [st EXCEPT !.last_non_disqual_sum_rank = float(row.sumRank),
                  !.last_place = Some(st.non_disqual_i + 1)]
  ELSE st

\* (mutant) a bare prefix test, without the space
name_matches_prefix(row_name, target) ==
  row_name = target \/ startswith(row_name, target)

\* lines 54-55
name_matches(row_name, target) ==
  row_name = target \/ startswith(row_name, target \o <<SP>>)

matches(row, target) == name_matches(norm(row.name), target)

\* (mutant) every row is counted
count_every_row(st, row) == [st EXCEPT !.non_disqual_i = st.non_disqual_i + 1]

\* lines 58-59
count(st, row) ==
  IF ~row.disqual THEN [st EXCEPT !.non_disqual_i = st.non_disqual_i + 1] ELSE st

Return(at, value) == [raise |-> FALSE, at |-> at, value |-> value]
Raise(at) == [raise |-> TRUE, at |-> at, value |-> None]

\* lines 46-61
RECURSIVE walk(_, _, _, _)
walk(srt, i, st, target) ==
  IF i > Len(srt) THEN Return("end", None)
  ELSE LET shown == display(st, srt[i])
       IN IF matches(srt[i], target) THEN Return("match", shown.last_place)
          ELSE walk(srt, i + 1, count(shown, srt[i]), target)

compute_place(rs, n, f) ==
  IF sort_raises(rs, f) THEN Raise("sort")
  ELSE walk(sorted_cohort(rs, f), 1, walk_init, norm(n))

-----------------------------------------------------------------------------
(* src/app.py: the service's copy of the rank engine.                      *)

\* (mutant) the key without the automatic component
_sort_key_no_automatic(row) ==
  <<0 - float(row.sumRank), int(row.disqual), 0, row.form, row.name>>

\* lines 98-106
_sort_key(row) ==
  <<0 - float(row.sumRank), int(row.disqual), int(row.automatic), row.form, row.name>>

\* lines 118-119
_norm(s) == join(<<SP>>, split(lower(strip(s))))

\* line 111
_filter_form(rs, f) == SelectSeq(rs, LAMBDA r : r.form = f)

\* lines 111-112
_sort_rows(c) == list_sort(c, [i \in 1..Len(c) |-> _sort_key(c[i])])

_sorted_cohort(rs, f) == _sort_rows(_filter_form(rs, f))

_sort_raises(rs, f) ==
  \E i \in 1..Len(rs) : rs[i].form = f /\ float_raises(rs[i].sumRank)

\* lines 124-131
_display(st, row) ==
  IF abs(float(row.sumRank) - st.last_non_disqual_sum_rank) > EPS /\ ~row.disqual
  THEN [st EXCEPT !.last_non_disqual_sum_rank = float(row.sumRank),
                  !.last_place = Some(st.non_disqual_i + 1)]
  ELSE st

\* lines 133-134
_matches(row, target) ==
  LET row_name == _norm(row.name)
  IN row_name = target \/ startswith(row_name, target \o <<SP>>)

\* lines 137-138
_count(st, row) ==
  IF ~row.disqual THEN [st EXCEPT !.non_disqual_i = st.non_disqual_i + 1] ELSE st

\* lines 123-140
RECURSIVE _walk(_, _, _, _)
_walk(srt, i, st, target) ==
  IF i > Len(srt) THEN Return("end", None)
  ELSE LET shown == _display(st, srt[i])
       IN IF _matches(srt[i], target) THEN Return("match", shown.last_place)
          ELSE _walk(srt, i + 1, _count(shown, srt[i]), target)

_compute_place(rs, n, f) ==
  IF _sort_raises(rs, f) THEN Raise("sort")
  ELSE _walk(_sorted_cohort(rs, f), 1, walk_init, _norm(n))

-----------------------------------------------------------------------------
(* src/app.py: the cached fetcher and the request handler.                 *)

CACHE_TTL_SECONDS == 3
TARGET_FORM == 11
TARGET_NAME == <<65>>

\* What requests.get meets: no response at all, or a status and a body.
Body(json, feed) == [json |-> json, rows |-> feed]
NoReply == [kind |-> "none", status |-> 0, body |-> Body("none", <<>>)]
Failure == [kind |-> "error", status |-> 0, body |-> Body("none", <<>>)]
Response(status, body) == [kind |-> "response", status |-> status, body |-> body]

\* Response.raise_for_status raises on a 4xx or 5xx status
raise_for_status(status) == status \in 400..599

Fetched(raise, value, c, network) ==
  [raise |-> raise, value |-> value, cache |-> c, network |-> network]

\* (mutant) the cache still counts as valid when exactly the TTL has passed
cache_valid_inclusive(c, now) ==
  c.data # None /\ (now - c.fetched_at) <= CACHE_TTL_SECONDS

\* line 85
cache_valid(c, now) ==
  c.data # None /\ (now - c.fetched_at) < CACHE_TTL_SECONDS

\* lines 82-95; `now` is read before the request is sent
_fetch_data(c, now, reply) ==
  IF cache_valid(c, now)
  THEN Fetched(FALSE, c.data, c, 0)
  ELSE IF reply.kind = "error" THEN Fetched(TRUE, None, c, 1)
  ELSE IF raise_for_status(reply.status) THEN Fetched(TRUE, None, c, 1)
  ELSE IF reply.body.json = "invalid" THEN Fetched(TRUE, None, c, 1)
  ELSE IF reply.body.json # "list" THEN Fetched(TRUE, None, c, 1)
  ELSE Fetched(FALSE, Some(reply.body.rows),
               [fetched_at |-> now, data |-> Some(reply.body.rows)], 1)

PathIndex == <<47>>
PathQuery == <<47, 63, 114>>
PathApi == <<47, 97, 112, 105, 47, 112, 108, 97, 99, 101>>
PathApiQuery == PathApi \o <<63, 114>>
PathOther == <<47, 120>>

Answer(status, body, place) == [status |-> status, body |-> body, place |-> place]

\* lines 152-180; the request to the feed, when one is made, takes `dur`
do_GET(path, reply, dur) ==
  /\ clock + dur <= MaxClock
  /\ IF path = PathIndex \/ startswith(path, <<47, 63>>)
     THEN /\ resp' = Answer(200, "html", None)
          /\ call' = [call EXCEPT !.made = FALSE, !.path = path]
          /\ UNCHANGED <<cache, clock>>
     ELSE IF path = PathApi
     THEN LET f == _fetch_data(cache, clock, reply)
              place == _compute_place(f.value[1], TARGET_NAME, TARGET_FORM)
          IN /\ cache' = f.cache
             /\ clock' = IF f.network = 1 THEN clock + dur ELSE clock
             /\ call' = [made |-> TRUE, path |-> path, before |-> cache,
                         now |-> clock, network |-> f.network,
                         raised |-> f.raise, value |-> f.value,
                         reply |-> IF f.network = 1 THEN reply ELSE NoReply]
             /\ resp' = IF f.raise THEN Answer(500, "error", None)
                        ELSE IF place.raise THEN Answer(500, "error", None)
                        ELSE Answer(200, "place", place.value)
     ELSE /\ resp' = Answer(404, "Not found", None)
          /\ call' = [call EXCEPT !.made = FALSE, !.path = path]
          /\ UNCHANGED <<cache, clock>>
  /\ UNCHANGED <<rows, name, form, rows2, name2, rankVars>>

\* time passes between requests
Tick ==
  /\ clock < MaxClock
  /\ clock' = clock + 1
  /\ UNCHANGED <<rows, name, form, rows2, name2, rankVars, cache, resp, call>>

-----------------------------------------------------------------------------
(* compute_place, one loop iteration at a time.                            *)

st_now == [non_disqual_i |-> non_disqual_i,
           last_non_disqual_sum_rank |-> last_non_disqual_sum_rank,
           last_place |-> last_place]

SetWalk(st) ==
  /\ non_disqual_i' = st.non_disqual_i
  /\ last_non_disqual_sum_rank' = st.last_non_disqual_sum_rank
  /\ last_place' = st.last_place

NoRet == [raise |-> FALSE, at |-> "none", value |-> None]

\* lines 37-44
Begin ==
  /\ pc = "call"
  /\ IF sort_raises(rows, form)
     THEN /\ pc' = "done"
          /\ ret' = Raise("sort")
          /\ UNCHANGED <<filtered, idx>>
     ELSE /\ pc' = "loop"
          /\ filtered' = sorted_cohort(rows, form)
          /\ idx' = 1
          /\ ret' = ret
  /\ SetWalk(walk_init)
  /\ UNCHANGED <<rows, name, form, rows2, name2, serverVars>>

\* lines 46-59, one row
Step ==
  /\ pc = "loop"
  /\ idx <= Len(filtered)
  /\ LET row == filtered[idx]
         shown == display(st_now, row)
     IN IF matches(row, norm(name))
        THEN /\ SetWalk(shown)
             /\ pc' = "done"
             /\ ret' = Return("match", shown.last_place)
             /\ idx' = idx
        ELSE /\ SetWalk(count(shown, row))
             /\ idx' = idx + 1
             /\ UNCHANGED <<pc, ret>>
  /\ UNCHANGED <<rows, name, form, filtered, rows2, name2, serverVars>>

\* line 61
Finish ==
  /\ pc = "loop"
  /\ idx > Len(filtered)
  /\ pc' = "done"
  /\ ret' = Return("end", None)
  /\ UNCHANGED <<rows, name, form, filtered, idx, non_disqual_i,
                 last_non_disqual_sum_rank, last_place, rows2, name2, serverVars>>

-----------------------------------------------------------------------------
(* Inputs.                                                                 *)

NameA == <<65>>
NameB == <<66>>
NameC == <<67>>
NameD == <<68>>

Row(n, f, s, d, a) ==
  [name |-> n, form |-> f, sumRank |-> s, disqual |-> d, automatic |-> a]

Lists(S, n) == UNION {[1..k -> S] : k \in 0..n}

NoCache == [fetched_at |-> 0, data |-> None]
NoResp == [status |-> 0, body |-> "none", place |-> None]
NoCall == [made |-> FALSE, path |-> <<>>, before |-> NoCache, now |-> 0,
           network |-> 0, raised |-> FALSE, value |-> None, reply |-> NoReply]

IdleServer ==
  /\ cache = NoCache
  /\ clock = 0
  /\ resp = NoResp
  /\ call = NoCall

IdleWalk ==
  /\ pc = "call"
  /\ filtered = <<>>
  /\ idx = 0
  /\ non_disqual_i = 0
  /\ last_non_disqual_sum_rank = SENTINEL
  /\ last_place = None
  /\ ret = NoRet

Scores == {SENTINEL, 0, 1, 2}
Letters == <<NameA, NameB, NameC, NameD, <<69>>, <<70>> >>

\* Cohort rows under two names (so that names repeat), and one row of another form.
CohortRows == {Row(n, 1, Num(s), d, FALSE) :
                 n \in {NameA, NameB}, s \in {SENTINEL, 0, 1}, d \in BOOLEAN}
OtherRow == Row(NameA, 2, Num(2), FALSE, FALSE)

\* Cohorts of pairwise distinct names, in ascending or descending input order.
DistinctLists ==
  UNION {{[i \in 1..k |-> Row(Letters[IF up THEN i ELSE k + 1 - i], 1,
                              Num(s[i]), d[i], FALSE)] :
            s \in [1..k -> Scores], d \in [1..k -> BOOLEAN], up \in BOOLEAN} :
         k \in 1..MaxRows}

Init ==
  /\ rows \in Lists(CohortRows \cup {OtherRow}, MaxRows) \cup DistinctLists
  /\ name \in {NameA, NameB}
  /\ form = 1
  /\ rows2 = <<>>
  /\ name2 = <<>>
  /\ IdleWalk
  /\ IdleServer

Next == Begin \/ Step \/ Finish

Spec == Init /\ [][Next]_vars

-----------------------------------------------------------------------------
(* The worked example: A(100), B(100), C(90, disqualified), D(80), form 1, *)
(* fed in any order.  Absent disqual and automatic are read as False.      *)

ExampleRows == {Row(NameA, 1, Num(100 * 100000), FALSE, FALSE),
                Row(NameB, 1, Num(100 * 100000), FALSE, FALSE),
                Row(NameC, 1, Num(90 * 100000), TRUE, FALSE),
                Row(NameD, 1, Num(80 * 100000), FALSE, FALSE)}

InitExample ==
  /\ rows \in {l \in [1..4 -> ExampleRows] : \A i, j \in 1..4 : l[i] = l[j] => i = j}
  /\ name \in {NameA, NameB, NameC, NameD, <<69>>}
  /\ form = 1
  /\ rows2 = <<>>
  /\ name2 = <<>>
  /\ IdleWalk
  /\ IdleServer

SpecExample == InitExample /\ [][Next]_vars

-----------------------------------------------------------------------------
(* Two row lists with the same cohort: rows2 starts as rows and is edited  *)
(* by inserting and removing rows of other forms and by swapping           *)
(* neighbours.  Rows here also vary `automatic` and may carry a null       *)
(* sumRank, on which float() raises.                                       *)

InRows == {Row(NameA, 1, Num(0), d, a) : d \in BOOLEAN, a \in BOOLEAN}
           \cup {Row(NameA, 1, Num(2), d, FALSE) : d \in BOOLEAN}
           \cup {Row(NameB, 1, Num(2), FALSE, FALSE), Row(NameB, 1, Num(0), TRUE, FALSE),
                 Row(NameB, 1, Null, FALSE, FALSE)}
OtherRows == {Row(NameA, 2, Num(5), FALSE, FALSE), Row(NameA, 3, Null, TRUE, TRUE)}

InitInputs ==
  /\ rows \in Lists(InRows, MaxRows2 - 1)
  /\ rows2 = rows
  /\ name = NameA
  /\ name2 = <<>>
  /\ form = 1
  /\ IdleWalk
  /\ IdleServer

InsertAt(s, k, x) == SubSeq(s, 1, k - 1) \o <<x>> \o SubSeq(s, k, Len(s))
RemoveAt(s, k) == SubSeq(s, 1, k - 1) \o SubSeq(s, k + 1, Len(s))

InsertOther ==
  /\ Len(rows2) < MaxRows2
  /\ \E k \in 1..(Len(rows2) + 1), r \in OtherRows : rows2' = InsertAt(rows2, k, r)
  /\ UNCHANGED <<rows, name, form, name2, rankVars, serverVars>>

RemoveOther ==
  /\ \E k \in 1..Len(rows2) :
       /\ rows2[k].form # form
       /\ rows2' = RemoveAt(rows2, k)
  /\ UNCHANGED <<rows, name, form, name2, rankVars, serverVars>>

Swap ==
  /\ \E k \in 1..(Len(rows2) - 1) :
       rows2' = [rows2 EXCEPT ![k] = rows2[k + 1], ![k + 1] = rows2[k]]
  /\ UNCHANGED <<rows, name, form, name2, rankVars, serverVars>>

NextInputs == InsertOther \/ RemoveOther \/ Swap

SpecInputs == InitInputs /\ [][NextInputs]_vars

-----------------------------------------------------------------------------
(* Two targets that differ in case and whitespace only: name2 starts as    *)
(* name and is edited by switching the case of a letter, by inserting a    *)
(* tab at an end or next to a whitespace character, and by removing a      *)
(* whitespace character that stands at an end or next to another one.      *)

Ann == <<65, 110, 110>>
Anna == <<65, 110, 110, 97>>
AnnB == <<97, 110, 110, 32, 98>>
AnnBPadded == <<32, 65, 78, 78, 9, 32, 66, 32>>
An == <<97, 110>>

\* each name comes with its own score, so that the place tells the rows apart
NamedRows == {Row(Anna, 1, Num(50), FALSE, FALSE), Row(Ann, 1, Num(40), FALSE, FALSE),
              Row(AnnBPadded, 1, Num(30), FALSE, FALSE),
              Row(AnnB, 1, Num(20), TRUE, FALSE), Row(An, 1, Num(10), FALSE, FALSE)}

InitName ==
  /\ rows \in Lists(NamedRows, 2)
  /\ name \in {Ann, AnnB, <<>>}
  /\ name2 = name
  /\ rows2 = <<>>
  /\ form = 1
  /\ IdleWalk
  /\ IdleServer

isalpha(c) == c \in 65..90 \/ c \in 97..122
swapcase(c) == IF c \in 65..90 THEN c + 32 ELSE IF c \in 97..122 THEN c - 32 ELSE c

\* position k of s is at an end of s or next to a whitespace character
Loose(s, k) ==
  IF k <= 1 \/ k > Len(s) THEN TRUE ELSE isspace(s[k - 1]) \/ isspace(s[k])

\* the whitespace character at position k of s is at an end or has one beside it
Spare(s, k) ==
  IF k = 1 \/ k = Len(s) THEN isspace(s[k])
  ELSE isspace(s[k]) /\ (isspace(s[k - 1]) \/ isspace(s[k + 1]))

ToggleCase ==
  /\ \E k \in 1..Len(name2) :
       /\ isalpha(name2[k])
       /\ name2' = [name2 EXCEPT ![k] = swapcase(name2[k])]
  /\ UNCHANGED <<rows, name, form, rows2, rankVars, serverVars>>

InsertSpace ==
  /\ Len(name2) < Len(name) + MaxPad
  /\ \E k \in 1..(Len(name2) + 1) :
       /\ Loose(name2, k)
       /\ name2' = InsertAt(name2, k, 9)
  /\ UNCHANGED <<rows, name, form, rows2, rankVars, serverVars>>

RemoveSpace ==
  /\ \E k \in 1..Len(name2) :
       /\ Spare(name2, k)
       /\ name2' = RemoveAt(name2, k)
  /\ UNCHANGED <<rows, name, form, rows2, rankVars, serverVars>>

NextName == ToggleCase \/ InsertSpace \/ RemoveSpace

SpecName == InitName /\ [][NextName]_vars

-----------------------------------------------------------------------------
(* The service: requests arrive one at a time (HTTPServer handles them     *)
(* sequentially) and time passes between them.                             *)

Feed1 == <<Row(TARGET_NAME, TARGET_FORM, Num(5), FALSE, FALSE)>>
Feed2 == <<Row(NameB, TARGET_FORM, Num(7), FALSE, FALSE),
           Row(TARGET_NAME, TARGET_FORM, Num(5), FALSE, FALSE)>>
FeedNull == <<Row(TARGET_NAME, TARGET_FORM, Null, FALSE, FALSE)>>
Feeds == {<<>>, Feed1, Feed2, FeedNull}

Bodies == {Body("list", f) : f \in Feeds} \cup {Body("object", <<>>), Body("invalid", <<>>)}
Replies == {Failure, Response(404, Body("object", <<>>))}
           \cup {Response(st, b) : st \in {200, 203}, b \in Bodies}
Paths == {PathIndex, PathQuery, PathApi, PathApiQuery, PathOther}

InitServer ==
  /\ rows = <<>>
  /\ name = TARGET_NAME
  /\ form = TARGET_FORM
  /\ rows2 = <<>>
  /\ name2 = <<>>
  /\ IdleWalk
  /\ IdleServer

\* only a request for /api/place can reach the feed
Page == \E path \in Paths \ {PathApi} : do_GET(path, NoReply, 0)
Place == \E reply \in Replies, dur \in 0..MaxDur : do_GET(PathApi, reply, dur)

NextServer == Page \/ Place \/ Tick

SpecServer == InitServer /\ [][NextServer]_vars

-----------------------------------------------------------------------------
(* Notions the properties are stated in.                                   *)

\* The row name, normalized, is the normalized target or continues it after a space.
Continues(rn, tn) ==
  \/ rn = tn
  \/ /\ Len(rn) > Len(tn)
     /\ \A k \in 1..Len(tn) : rn[k] = tn[k]
     /\ rn[Len(tn) + 1] = SP

NameHits(n, t) == Continues(norm(n), norm(t))

\* Index of the first row of a sorted cohort that the target names, or 0.
FirstMatch(srt, t) ==
  LET hits == {i \in 1..Len(srt) : NameHits(srt[i].name, t)}
  IN IF hits = {} THEN 0 ELSE CHOOSE i \in hits : \A j \in hits : i <= j

\* rankCounter at row i: the non-disqualified rows that precede it.
NonDisqBefore(srt, i) == Cardinality({j \in 1..(i - 1) : ~srt[j].disqual})

\* The walk's state when it reaches row i, and the rank displayed for row i.
RECURSIVE StateAt(_, _)
StateAt(srt, i) ==
  IF i <= 1 THEN walk_init
  ELSE count(display(StateAt(srt, i - 1), srt[i - 1]), srt[i - 1])

DisplayRank(srt, i) == display(StateAt(srt, i), srt[i]).last_place

DistinctNames(srt) ==
  \A i, j \in 1..Len(srt) : srt[i].name = srt[j].name => i = j

Near(a, b) == abs(float(a.sumRank) - float(b.sumRank)) <= EPS

\* compute_place has sorted the cohort: `filtered` is the sorted order.
Sorted == pc \in {"loop", "done"} /\ ~ret.raise

-----------------------------------------------------------------------------
-----------------------------------------------------------------------------
(* C3: a step of the walk over a disqualified row leaves non_disqual_i,    *)
(* last_non_disqual_sum_rank and last_place as they were; and when the     *)
(* first row the target names is disqualified, compute_place returns at   *)
(* the match (line 56) with the last_place the rows before it left, which *)
(* is None when no non-disqualified row precedes it.                       *)
C3_DisqualStep ==
  (pc = "loop" /\ idx <= Len(filtered) /\ filtered[idx].disqual)
    => /\ non_disqual_i' = non_disqual_i
       /\ last_non_disqual_sum_rank' = last_non_disqual_sum_rank
       /\ last_place' = last_place

C3_DisqualFound ==
  (Sorted /\ pc = "done") =>
    LET m == FirstMatch(filtered, name)
    IN (m > 0 /\ filtered[m].disqual) =>
         /\ ret = Return("match", StateAt(filtered, m).last_place)
         /\ idx = m
         /\ NonDisqBefore(filtered, m) = 0 => ret.value = None
         /\ ret.value # None => ret.value[1] <= NonDisqBefore(filtered, m)

C3_Disqualified == []C3_DisqualFound /\ [][C3_DisqualStep]_vars

\* Found on a disqualified row that inherits the rank of the row before it.
C3_Witness ==
  /\ pc = "done"
  /\ ret = Return("match", Some(1))
  /\ idx = 2
  /\ filtered[2].disqual
  /\ ~filtered[1].disqual

-----------------------------------------------------------------------------
(* C4 as stated: for A(100), B(100), C(90, disqualified), D(80) and form 1 *)
(* the sorted order is A, B, C, D and the places are A = 1, B = 1, C = 1   *)
(* and D = 2.                                                              *)
C4_Places(n, d) ==
  IF n \in {NameA, NameB, NameC} THEN Return("match", Some(1))
  ELSE IF n = NameD THEN Return("match", Some(d))
  ELSE Return("end", None)

C4_Example(d) ==
  /\ Sorted => [i \in 1..Len(filtered) |-> filtered[i].name]
                 = <<NameA, NameB, NameC, NameD>>
  /\ pc = "done" => ret = C4_Places(name, d)

C4_AsStated == C4_Example(2)

(* C4, amended: the sorted order is A, B, C, D and the places are A = 1,   *)
(* B = 1, C = 1 and D = 3 (rankCounter is 2 when D is reached).            *)
C4_WorkedExample == C4_Example(3)

C4_Witness ==
  /\ pc = "done"
  /\ name = NameD
  /\ ret = Return("match", Some(3))
  /\ rows[1].name = NameD
  /\ non_disqual_i = 2

-----------------------------------------------------------------------------
(* C10 as stated: when the first row the target names is not disqualified, *)
(* the place is some p with 1 <= p <= the number of non-disqualified rows  *)
(* of the cohort; None is returned only when the target is not found or no *)
(* non-disqualified row stands at or before the matched row.               *)
C10_PlaceDefined ==
  (Sorted /\ pc = "done") =>
    LET m == FirstMatch(filtered, name)
        n == Cardinality({j \in 1..Len(filtered) : ~filtered[j].disqual})
    IN /\ (m > 0 /\ ~filtered[m].disqual)
            => /\ ret.value # None
               /\ ret.value[1] \in 1..n
       /\ ret.value = None
            => \/ m = 0
               \/ NonDisqBefore(filtered, m + 1) = 0

-----------------------------------------------------------------------------
(* C1: two row lists that hold the same rows of the target form, whatever  *)
(* rows of other forms they hold and in whatever order, get the same       *)
(* result from compute_place and from _compute_place; a list with no row   *)
(* of the target form gets not-found.                                      *)
SameCohort(a, b) ==
  \A r \in InRows : Cardinality({i \in 1..Len(a) : a[i] = r})
                      = Cardinality({i \in 1..Len(b) : b[i] = r})

C1_CohortIndependence ==
  /\ SameCohort(rows, rows2)
  /\ compute_place(rows2, name, form) = compute_place(rows, name, form)
  /\ _compute_place(rows2, name, form) = _compute_place(rows, name, form)
  /\ (\A i \in 1..Len(rows2) : rows2[i].form # form)
       => /\ compute_place(rows2, name, form) = Return("end", None)
          /\ _compute_place(rows2, name, form) = Return("end", None)

\* A row of another form that carries the target's name stands first, and the
\* target is still placed second in its own cohort.
C1_Witness ==
  /\ Len(rows2) > Len(rows)
  /\ rows2[1].form # form
  /\ rows2[1].name = name
  /\ compute_place(rows2, name, form) = Return("match", Some(2))

-----------------------------------------------------------------------------
(* C9: on every row list, target and form, _compute_place of the service   *)
(* and compute_place of the batch script sort the cohort into the same     *)
(* order and return the same result, or both raise.                        *)
C9_CopiesInSync ==
  /\ _compute_place(rows2, name, form) = compute_place(rows2, name, form)
  /\ _sort_raises(rows2, form) = sort_raises(rows2, form)
  /\ ~sort_raises(rows2, form)
       => _sorted_cohort(rows2, form) = sorted_cohort(rows2, form)

\* Two rows that only `automatic` tells apart, fed in the other order, and a
\* second row with the target's name behind the one that is found.
C9_Witness ==
  /\ Len(rows2) >= 3
  /\ \E i, j \in 1..Len(rows2) :
       /\ i < j
       /\ rows2[i].form = form /\ rows2[j].form = form
       /\ rows2[i].name = name /\ rows2[j].name = name
       /\ rows2[i].sumRank = rows2[j].sumRank
       /\ rows2[i].disqual = rows2[j].disqual
       /\ rows2[i].automatic /\ ~rows2[j].automatic
  /\ _compute_place(rows2, name, form).at = "match"

-----------------------------------------------------------------------------
(* C5: a row is matched exactly when its normalized name is the normalized *)
(* target or continues it after a space; a row whose normalized name only  *)
(* has the target as a prefix of a longer word is never matched; and a     *)
(* target changed in case and whitespace only gets the same result.        *)
Outgrows(rn, tn) ==
  /\ Len(rn) > Len(tn)
  /\ \A k \in 1..Len(tn) : rn[k] = tn[k]
  /\ rn[Len(tn) + 1] # SP

LongerWord(n, t) == Outgrows(norm(n), norm(t))

C5_NameMatching ==
  /\ compute_place(rows, name2, form) = compute_place(rows, name, form)
  /\ _compute_place(rows, name2, form) = _compute_place(rows, name, form)
  /\ \A i \in 1..Len(rows) :
       LET alone == compute_place(<<rows[i]>>, name2, form)
       IN /\ (alone.at = "match") <=> NameHits(rows[i].name, name2)
          /\ LongerWord(rows[i].name, name2) => alone = Return("end", None)
  /\ LET m == FirstMatch(sorted_cohort(rows, form), name2)
     IN compute_place(rows, name2, form).at = (IF m = 0 THEN "end" ELSE "match")

\* "aNn<tab>" is looked up where "Ann" was: Anna, sorted first, is passed over
\* and Ann is found in second place.
C5_Witness ==
  /\ name = Ann
  /\ name2 = <<97, 78, 110, 9>>
  /\ rows = <<Row(Ann, 1, Num(40), FALSE, FALSE), Row(Anna, 1, Num(50), FALSE, FALSE)>>
  /\ compute_place(rows, name2, form) = Return("match", Some(2))

-----------------------------------------------------------------------------
(* C6: a call of _fetch_data made while data is cached and less than the   *)
(* TTL has passed since fetched_at returns the cached list, makes no       *)
(* request and leaves the cache alone; any other call makes exactly one    *)
(* request, and when that succeeds the cache holds the new list with the   *)
(* time the call was made, so that the calls within the TTL of it are      *)
(* served that list.                                                       *)
Fresh(c, now) == c.data # None /\ now - c.fetched_at < CACHE_TTL_SECONDS

C6_Cache ==
  call.made =>
    IF Fresh(call.before, call.now)
    THEN /\ call.network = 0
         /\ ~call.raised
         /\ call.value = call.before.data
         /\ cache = call.before
    ELSE /\ call.network = 1
         /\ ~call.raised =>
              /\ call.reply.body.json = "list"
              /\ call.value = Some(call.reply.body.rows)
              /\ cache = [fetched_at |-> call.now, data |-> call.value]

\* A call served from a cache that an earlier call refreshed after its first
\* content had expired.
C6_Witness ==
  /\ call.made
  /\ call.network = 0
  /\ call.before.fetched_at >= CACHE_TTL_SECONDS
  /\ call.now > call.before.fetched_at
  /\ call.value = Some(Feed2)
  /\ resp = Answer(200, "place", Some(2))

-----------------------------------------------------------------------------
(* C7 as stated: a refresh that meets a network failure, a status other    *)
(* than 200 or a body that is not a JSON list raises, after one request,   *)
(* and leaves the cache as it was; the cache is replaced only by a         *)
(* refresh that met none of these.                                         *)
Failed(reply) ==
  reply.kind = "error" \/ reply.status # 200 \/ reply.body.json # "list"

C7_FailedRefresh ==
  (call.made /\ ~Fresh(call.before, call.now)) =>
    /\ call.network = 1
    /\ Failed(call.reply) => (call.raised /\ cache = call.before)
    /\ cache # call.before => ~Failed(call.reply)

-----------------------------------------------------------------------------
(* C8 as stated: a GET /api/place whose fetch or rank computation raises   *)
(* is answered 500 with an error body, and one whose fetch succeeds is     *)
(* answered 200 with the place, whatever requests failed before it.        *)
C8_RequestBoundary ==
  call.made =>
    /\ call.raised => resp = Answer(500, "error", None)
    /\ ~call.raised => (resp.status = 200 /\ resp.body = "place")

====
